---- MODULE Spec2Model ----
(***************************************************************************)
(* IoT-XRay consumer: the message validation / acknowledgment pipeline     *)
(* (ConsumerService.handleXrayData, _cleanData / cleanData) and the signal *)
(* store (SignalService over the Mongoose Signal collection).              *)
(*                                                                         *)
(* Two variants of ConsumerService are in the repository:                  *)
(*   "A"  consumer.service.ts : _cleanData returns {} when no device       *)
(*        survives and handleXrayData checks for the empty mapping;        *)
(*   "B"  the older file      : cleanData returns null when no device      *)
(*        survives and handleXrayData has no empty check.                  *)
(* The variable `variant` fixes, for a whole behaviour, which one runs.    *)
(***************************************************************************)
EXTENDS Integers, Sequences, FiniteSets, TLC

VARIABLES
  variant,     \* "A" | "B": which ConsumerService is deployed
  store,       \* the Signal collection: a set of documents
  usedUuids,   \* every uuid uuidv4() returned or a document ever carried
  retired,     \* uuids of documents that were deleted
  requeued,    \* messages the transport put back on the queue
  deliveries,  \* number of deliveries made so far
  pc,          \* position of the handler: idle, validating, persisting, responded
  cur,         \* the message being handled
  decoded,     \* what the decoder returned for cur
  state,       \* per-message state of the delivery attempt
  response,    \* what handleXrayData returned to the transport
  persist,     \* outcome of the store's insertMany for this attempt
  storeBefore, \* the collection when the delivery or the client's call started
  storeCalls,  \* number of createSignal calls of this attempt
  returned,    \* what createSignal returned to handleXrayData
  seen,        \* history: {decode outcome, persist outcome, response} of settled deliveries
  request,     \* the call a client of SignalController / SignalService made
  result,      \* what that call returned
  inserts,     \* per consumer instance: its createSignal call in progress
  posted,      \* the body of the last POST /producer/publish-manual
  published    \* the messages that request published to the exchange, in order

vars == <<variant, store, usedUuids, retired, requeued, deliveries, pc,
          cur, decoded, state, response, persist, storeBefore, storeCalls,
          returned, seen, request, result, inserts, posted, published>>

(* state of the concurrent consumer instances and of the producer *)
sideVars == <<inserts, posted, published>>

(***************************************************************************)
(* Bounds of the model.                                                    *)
(***************************************************************************)
MaxPoints == 2      \* longest valid `data` array of a device entry
NumUuids == 3       \* size of the pool uuidv4() and callers draw from
MaxDeliveries == 2  \* deliveries (first deliveries and redeliveries) explored
MaxStore == 2       \* documents in the collection when the store is driven directly
MaxSignals == 12    \* documents in the collection when it is queried
NumInstances == 2   \* consumer instances that call createSignal concurrently

UUIDs == 1..NumUuids
Devices == <<"d1", "d2">>

(***************************************************************************)
(* JavaScript values that occur in a payload: a number or something that   *)
(* is not a number (undefined, a non-numeric string).                      *)
(***************************************************************************)
Num(n) == [t |-> "num", v |-> n]
Undef == [t |-> "undef", v |-> 0]

(* class-validator decorators of consumer/types.ts *)
IsNumber(j) == j.t = "num"
IsInt(j) == j.t = "num"
IsLatitude(j) == j.t = "num" /\ j.v >= -90 /\ j.v <= 90
IsLongitude(j) == j.t = "num" /\ j.v >= -180 /\ j.v <= 180

(***************************************************************************)
(* Elements of a device's wire `data` array.                               *)
(*   pair   : [time, [x, y, speed]]                                        *)
(*   number : a bare number, e.g. 5           (not iterable)               *)
(*   short  : a one-element array, e.g. [123] (second element undefined)   *)
(***************************************************************************)
Pair(t, x, y, s) == [shape |-> "pair", time |-> t, x |-> x, y |-> y, speed |-> s]
ElNumber == [shape |-> "number", time |-> Undef, x |-> Undef, y |-> Undef, speed |-> Undef]
ElShort == [shape |-> "short", time |-> Num(123), x |-> Undef, y |-> Undef, speed |-> Undef]

PtA == Pair(Num(123), Num(1), Num(2), Num(3))
PtB == Pair(Num(124), Num(-45), Num(120), Num(60))
PtOutOfRange == Pair(Num(125), Num(91), Num(0), Num(10))

(* the first n points of the stream PtA, PtB, PtA, ... *)
ValidData(n) == [i \in 1..n |-> IF i % 2 = 1 THEN PtA ELSE PtB]

(***************************************************************************)
(* Device entries of a message.  `present` is FALSE for a null entry;      *)
(* `dataIsArray` is FALSE when `data` is not an array; declLen / declVol   *)
(* are extra caller-supplied dataLength / dataVolume fields of the entry.  *)
(***************************************************************************)
Entry(d, t, dl, dv) ==
  [present |-> TRUE, dataIsArray |-> TRUE, data |-> d, time |-> t,
   declLen |-> dl, declVol |-> dv]
NullEntry ==
  [present |-> FALSE, dataIsArray |-> FALSE, data |-> <<>>, time |-> Undef,
   declLen |-> Undef, declVol |-> Undef]
NotArrayEntry ==
  [present |-> TRUE, dataIsArray |-> FALSE, data |-> <<>>, time |-> Undef,
   declLen |-> Undef, declVol |-> Undef]

DeviceTime == Num(456)

ValidEntries ==
  { Entry(ValidData(n), DeviceTime, Undef, Undef) : n \in 1..MaxPoints }
ExtraEntries ==
  { Entry(ValidData(n), DeviceTime, Num(1), Num(7)) : n \in 1..MaxPoints }
BadEntries ==
  { NullEntry, NotArrayEntry,
    Entry(<<>>, DeviceTime, Undef, Undef),            \* empty data array
    Entry(<<PtOutOfRange>>, DeviceTime, Undef, Undef), \* latitude out of range
    Entry(<<PtA>>, Undef, Undef, Undef),               \* device time missing
    Entry(<<PtA, ElNumber>>, DeviceTime, Undef, Undef),
    Entry(<<ElShort>>, DeviceTime, Undef, Undef) }
Entries == ValidEntries \cup ExtraEntries \cup BadEntries

(***************************************************************************)
(* Messages: the top-level value and, for an object or an array, its own   *)
(* enumerable keys in iteration order with the value under each key.  An   *)
(* array's keys are its indices "0", "1", ...                              *)
(***************************************************************************)
Msg(k, keys, ents) == [kind |-> k, keys |-> keys, ents |-> ents]
ArrayKeys == <<"0", "1">>

Messages ==
  { Msg("null", <<>>, <<>>), Msg("string", <<>>, <<>>),
    Msg("object", <<>>, <<>>), Msg("array", <<>>, <<>>) }
  \cup { Msg("object", <<Devices[1]>>, <<e>>) : e \in Entries }
  \cup { Msg("object", Devices, <<e1, e2>>) : e1 \in Entries, e2 \in Entries }
  \cup { Msg("array", <<ArrayKeys[1]>>, <<e>>) : e \in Entries }

(***************************************************************************)
(* Decoder: ConsumerService._cleanData (variant A) / cleanData (variant B) *)
(***************************************************************************)
(* `!device || !Array.isArray(device.data)`: the entry is skipped *)
SkipsEntry(e) == ~e.present \/ ~e.dataIsArray

(* The arrow function's parameter `[time, [x, y, speed]]` destructures only
   an iterable whose second element is iterable; a number or a one-element
   array raises a TypeError. *)
Destructures(el) == el.shape = "pair"

(* mutant: the two coordinates change places *)
MapPointSwapsCoords(el) ==
  [time |-> el.time, coords |-> [x |-> el.y, y |-> el.x, speed |-> el.speed]]

(* ([time, [x, y, speed]]) => ({ time, coords: { x, y, speed } }) *)
MapPoint(el) == [time |-> el.time, coords |-> [x |-> el.x, y |-> el.y, speed |-> el.speed]]

(* device.data.map(...) raises when an element does not destructure *)
MapThrows(e) == \E i \in 1..Len(e.data) : ~Destructures(e.data[i])

(* mutant: the entry's caller-supplied dataLength decides how many of its
   points are kept *)
MappedDataTrustsLength(e) ==
  LET n == IF e.declLen.t = "num" /\ e.declLen.v < Len(e.data)
           THEN e.declLen.v ELSE Len(e.data)
  IN  [data |-> [i \in 1..n |-> MapPoint(e.data[i])], time |-> e.time]

(* mappedData = { data: device.data.map(...), time: device.time }: no other
   field of the entry is copied *)
MappedData(e) ==
  [data |-> [i \in 1..Len(e.data) |-> MapPoint(e.data[i])], time |-> e.time]

(* mutant: CoordinatesDto.x without @IsLatitude() *)
ValidPointAnyLatitude(p) ==
  /\ IsInt(p.time)
  /\ IsNumber(p.coords.x)
  /\ IsLongitude(p.coords.y)
  /\ IsNumber(p.coords.speed)

(* validate(deviceDto) reports no error *)
ValidPoint(p) ==
  /\ IsInt(p.time)
  /\ IsLatitude(p.coords.x)
  /\ IsLongitude(p.coords.y)
  /\ IsNumber(p.coords.speed)

(* mutant: DeviceDto.data without @ArrayMinSize(1) *)
ValidDeviceAllowsEmptyData(dto) ==
  /\ \A i \in 1..Len(dto.data) : ValidPoint(dto.data[i])
  /\ IsNumber(dto.time)

ValidDevice(dto) ==
  /\ Len(dto.data) >= 1
  /\ \A i \in 1..Len(dto.data) : ValidPoint(dto.data[i])
  /\ IsNumber(dto.time)

(* the entry at position i ends up in transformedData *)
Survives(e) == ~SkipsEntry(e) /\ ~MapThrows(e) /\ ValidDevice(MappedData(e))

(* the for-in loop raises at the first entry whose map raises *)
LoopThrows(m) ==
  \E i \in 1..Len(m.keys) : ~SkipsEntry(m.ents[i]) /\ MapThrows(m.ents[i])

RECURSIVE SurvivingFrom(_, _)
SurvivingFrom(m, i) ==
  IF i > Len(m.keys) THEN <<>>
  ELSE (IF Survives(m.ents[i]) THEN <<i>> ELSE <<>>) \o SurvivingFrom(m, i + 1)

(* number of `validate(deviceDto)` calls the for-in loop makes from entry i
   on: none for a skipped entry, none from the entry whose map raises on *)
RECURSIVE ValidateCallsFrom(_, _)
ValidateCallsFrom(m, i) ==
  IF i > Len(m.keys) THEN 0
  ELSE IF SkipsEntry(m.ents[i]) THEN ValidateCallsFrom(m, i + 1)
  ELSE IF MapThrows(m.ents[i]) THEN 0
  ELSE 1 + ValidateCallsFrom(m, i + 1)

Decoded(tag, keys, dtos) == [tag |-> tag, keys |-> keys, dtos |-> dtos]
DecodedNull == Decoded("null", <<>>, <<>>)
DecodedThrow == Decoded("throw", <<>>, <<>>)

TransformedData(m) ==
  LET idx == SurvivingFrom(m, 1)
  IN  Decoded("map",
              [j \in 1..Len(idx) |-> m.keys[idx[j]]],
              [j \in 1..Len(idx) |-> MappedData(m.ents[idx[j]])])

(* `!msg || typeof msg !== 'object'` *)
NotAnObject(m) == m.kind \in {"null", "string"}

(* consumer.service.ts, _cleanData *)
CleanDataA(m) ==
  IF NotAnObject(m) THEN DecodedNull
  ELSE IF LoopThrows(m) THEN DecodedThrow
  ELSE TransformedData(m)

(* mutant: the older cleanData without its last line's null *)
CleanDataBKeepsEmpty(m) ==
  IF NotAnObject(m) THEN DecodedNull
  ELSE IF LoopThrows(m) THEN DecodedThrow
  ELSE TransformedData(m)

(* the older ConsumerService, cleanData: null when nothing survives *)
CleanDataB(m) ==
  IF NotAnObject(m) THEN DecodedNull
  ELSE IF LoopThrows(m) THEN DecodedThrow
  ELSE IF Len(TransformedData(m).keys) = 0 THEN DecodedNull
  ELSE TransformedData(m)

CleanData(v, m) == IF v = "A" THEN CleanDataA(m) ELSE CleanDataB(m)

(***************************************************************************)
(* What handleXrayData returns: always a Nack object; the transport acks a *)
(* delivery only when the handler returns something that is not a Nack.    *)
(***************************************************************************)
Nack(requeue) == [kind |-> "nack", requeue |-> requeue]
Ack == [kind |-> "ack", requeue |-> FALSE]
NoResponse == [kind |-> "none", requeue |-> FALSE]

(* mutant: the success return depends on what the store held *)
ReturnSuccessOnEmptyStoreOnly ==
  IF storeBefore = {} THEN Nack(FALSE) ELSE Nack(TRUE)

ReturnInvalid == Nack(FALSE)   \* `if (!cleanedData) return new Nack(false)`
ReturnEmpty == Nack(FALSE)     \* variant A: no surviving device
ReturnSuccess == Nack(FALSE)   \* "Step 3: Acknowledge the message"
ReturnError == Nack(TRUE)      \* the catch block

(* mutant: an exception of the decoder is treated like a null result *)
AfterDecodeDeadLettersThrow(v, r) ==
  IF r.tag = "throw" THEN "dead"
  ELSE IF r.tag = "null" THEN "dead"
  ELSE IF v = "A" /\ Len(r.keys) = 0 THEN "dead"
  ELSE "persist"

(* mutant: consumer.service.ts without its check for an empty mapping *)
AfterDecodeWithoutEmptyCheck(v, r) ==
  IF r.tag = "throw" THEN "retry"
  ELSE IF r.tag = "null" THEN "dead"
  ELSE "persist"

(* the branch taken after the decoder returned r: dead, retry or persist *)
AfterDecode(v, r) ==
  IF r.tag = "throw" THEN "retry"
  ELSE IF r.tag = "null" THEN "dead"
  ELSE IF v = "A" /\ Len(r.keys) = 0 THEN "dead"
  ELSE "persist"

(***************************************************************************)
(* Signal store: SignalService.createSignal                                *)
(***************************************************************************)
RECURSIVE DecLen(_)
(* number of characters of the decimal text of an integer *)
DecLen(n) ==
  IF n < 0 THEN 1 + DecLen(-n)
  ELSE IF n < 10 THEN 1
  ELSE 1 + DecLen(n \div 10)

(* JSON.stringify of one point: {"time":T,"coords":{"x":X,"y":Y,"speed":S}} *)
PointJsonLen(p) ==
  39 + DecLen(p.time.v) + DecLen(p.coords.x.v) + DecLen(p.coords.y.v)
     + DecLen(p.coords.speed.v)

RECURSIVE SumJsonLen(_, _)
SumJsonLen(data, i) ==
  IF i > Len(data) THEN 0 ELSE PointJsonLen(data[i]) + SumJsonLen(data, i + 1)

(* Buffer.from(JSON.stringify(data)).length: brackets, points, commas *)
JsonByteLength(data) ==
  2 + SumJsonLen(data, 1) + (IF Len(data) > 1 THEN Len(data) - 1 ELSE 0)

Signal(u, dev, t, dl, dv, d) ==
  [uuid |-> u, deviceId |-> dev, time |-> t, dataLength |-> dl,
   dataVolume |-> dv, data |-> d]

(* mutant: dataLength and dataVolume assigned the wrong way round *)
NewSignalSwapped(u, deviceId, deviceData) ==
  Signal(u, deviceId, deviceData.time, JsonByteLength(deviceData.data),
         Len(deviceData.data), deviceData.data)

(* the document createSignal builds for one device of the message *)
NewSignal(u, deviceId, deviceData) ==
  Signal(u, deviceId, deviceData.time, Len(deviceData.data),
         JsonByteLength(deviceData.data), deviceData.data)

(* signalsToSave: one document per device key, in iteration order, the
   i-th carrying the i-th generated uuid *)
SignalsToSave(r, uuids) ==
  [i \in 1..Len(r.keys) |-> NewSignal(uuids[i], r.keys[i], r.dtos[i])]

Uuids(S) == { s.uuid : s \in S }
Range(f) == { f[i] : i \in DOMAIN f }

(* the i-th smallest element of a set of uuids *)
NthOf(U, i) == CHOOSE u \in U : Cardinality({ w \in U : w < u }) = i - 1

(* mutant: the uuid is derived from the position in the message, the same
   for every handling of it *)
UuidsFromPosition(n) == { [i \in 1..n |-> i] }

(* uuidv4(), called n times: n values, none returned or carried before,
   pairwise distinct.  Uuids are interchangeable names, so the generator is
   taken to return the unused ones in increasing order. *)
FreshUuidSeqs(n) ==
  LET F == UUIDs \ usedUuids
  IN  IF Cardinality(F) < n THEN {} ELSE { [i \in 1..n |-> NthOf(F, i)] }

(* the unique index on uuid admits document i of the batch *)
IndexAdmits(docs, i, S) ==
  /\ docs[i].uuid \notin Uuids(S)
  /\ \A j \in 1..(i - 1) : docs[j].uuid # docs[i].uuid

(* mutant: insertMany never settles *)
InsertManyNeverSettles(docs, S) == {}

(* Model.insertMany(docs), ordered, no transaction: the documents are
   written one after the other and the call stops at the first write that
   fails; the k documents written before it stay.  k = Len(docs): success. *)
InsertManyOutcomes(docs, S) ==
  { k \in 0..Len(docs) : \A i \in 1..k : IndexAdmits(docs, i, S) }

Written(docs, k) == { docs[i] : i \in 1..k }

(* createSignal catches every error of insertMany and returns [] *)
CreateSignalRaises(docs, k) == FALSE

(* what createSignal returns: savedSignals when insertMany resolved, [] when
   there was nothing to save and [] from the catch block *)
Returned(kind, n) == [kind |-> kind, len |-> n]
NotReturned == Returned("none", 0)

CreateSignalReturns(docs, k) ==
  IF Len(docs) = 0 THEN Returned("array", 0)
  ELSE IF k = Len(docs) THEN Returned("array", Len(docs))
  ELSE IF CreateSignalRaises(docs, k) THEN Returned("error", 0)
  ELSE Returned("array", 0)


(***************************************************************************)
(* The pipeline: one delivery of the transport to handleXrayData.          *)
(***************************************************************************)
NoMessage == Msg("null", <<>>, <<>>)

(* consumer instances that share the collection, and one instance's
   createSignal call: not started, awaiting insertMany, or returned *)
Instances == 1..NumInstances
InsertCall(phase, docs, written, ret) ==
  [phase |-> phase, docs |-> docs, written |-> written, returned |-> ret]
NoInserts == [i \in Instances |-> InsertCall("idle", <<>>, 0, NotReturned)]
NoRequest == [op |-> "none"]
NoResult == [kind |-> "none"]

clientVars == <<request, result>>

(* the two outcomes the acknowledgment decision is taken from *)
DecodeOutcome(r) ==
  CASE r.tag = "throw" -> "exception"
    [] r.tag = "null" -> "null"
    [] OTHER -> "mapping"

PersistOutcome(calls, p) ==
  IF calls = 0 THEN "notAttempted"
  ELSE IF p = "failed" THEN "failed" ELSE "completed"

Init ==
  /\ variant \in {"A", "B"}
  /\ store = {}
  /\ usedUuids = {}
  /\ retired = {}
  /\ requeued = {}
  /\ deliveries = 0
  /\ pc = "idle"
  /\ cur = NoMessage
  /\ decoded = DecodedNull
  /\ state = "NONE"
  /\ response = NoResponse
  /\ persist = "none"
  /\ storeBefore = {}
  /\ storeCalls = 0
  /\ returned = NotReturned
  /\ seen = {}
  /\ request = NoRequest
  /\ result = NoResult
  /\ inserts = NoInserts
  /\ posted = NoMessage
  /\ published = <<>>

(* RECEIVED -> VALIDATING: the transport hands m to handleXrayData *)
Receive(m) ==
  /\ pc = "idle"
  /\ deliveries < MaxDeliveries
  /\ Cardinality(UUIDs \ usedUuids) >= Len(Devices)
  /\ pc' = "validating"
  /\ cur' = m
  /\ deliveries' = deliveries + 1
  /\ state' = "VALIDATING"
  /\ response' = NoResponse
  /\ decoded' = DecodedNull
  /\ persist' = "none"
  /\ storeBefore' = store
  /\ storeCalls' = 0
  /\ returned' = NotReturned
  /\ UNCHANGED <<variant, store, usedUuids, retired, seen, clientVars, sideVars>>

(* a message published to the exchange is delivered for the first time *)
Deliver ==
  \E m \in Messages : Receive(m) /\ UNCHANGED requeued

(* a message that was rejected with requeue is delivered again *)
Redeliver ==
  \E m \in requeued : Receive(m) /\ requeued' = requeued \ {m}

(* handleXrayData, step 1: `await this._cleanData(msg)` and the two checks
   on its result; an exception goes to the catch block *)
Validate ==
  /\ pc = "validating"
  /\ LET r == CleanData(variant, cur)
         b == AfterDecode(variant, r)
     IN  /\ decoded' = r
         /\ pc' = IF b = "persist" THEN "persisting" ELSE "responded"
         /\ state' = CASE b = "retry" -> "RETRY"
                       [] b = "dead" -> "DEAD_LETTERED"
                       [] OTHER -> state
         /\ response' = CASE b = "retry" -> ReturnError
                          [] b = "dead" /\ r.tag = "null" -> ReturnInvalid
                          [] b = "dead" -> ReturnEmpty
                          [] OTHER -> response
  /\ UNCHANGED <<variant, store, usedUuids, retired, requeued, deliveries, cur,
                 persist, storeBefore, storeCalls, returned, seen, clientVars, sideVars>>

(* mutant: createSignal is handed only the first device of the mapping the
   decoder returned *)
PersistFirstDeviceOnly ==
  /\ pc = "persisting"
  /\ \E uuids \in FreshUuidSeqs(Len(decoded.keys)) :
       LET docs == SignalsToSave(Decoded("map", <<decoded.keys[1]>>, <<decoded.dtos[1]>>), uuids)
       IN  \E k \in InsertManyOutcomes(docs, store) :
             LET raised == k < Len(docs) /\ CreateSignalRaises(docs, k)
             IN  /\ store' = store \cup Written(docs, k)
                 /\ usedUuids' = usedUuids \cup Range(uuids)
                 /\ persist' = IF Len(docs) = 0 THEN "empty"
                               ELSE IF k = Len(docs) THEN "ok" ELSE "failed"
                 /\ state' = IF raised THEN "RETRY" ELSE "ACCEPTED"
                 /\ response' = IF raised THEN ReturnError ELSE ReturnSuccess
                 /\ returned' = CreateSignalReturns(docs, k)
  /\ storeCalls' = storeCalls + 1
  /\ pc' = "responded"
  /\ UNCHANGED <<variant, retired, requeued, deliveries, cur, decoded,
                 storeBefore, seen, clientVars, sideVars>>

(* handleXrayData, steps 2 and 3: `await this.signalService.createSignal
   (cleanedData)` and the return after it.  createSignal generates one uuid
   per device, builds the documents and calls insertMany when there is at
   least one; the store writes k of them. *)
Persist ==
  /\ pc = "persisting"
  /\ \E uuids \in FreshUuidSeqs(Len(decoded.keys)) :
       LET docs == SignalsToSave(decoded, uuids)
       IN  \E k \in InsertManyOutcomes(docs, store) :
             LET raised == k < Len(docs) /\ CreateSignalRaises(docs, k)
             IN  /\ store' = store \cup Written(docs, k)
                 /\ usedUuids' = usedUuids \cup Range(uuids)
                 /\ persist' = IF Len(docs) = 0 THEN "empty"
                               ELSE IF k = Len(docs) THEN "ok" ELSE "failed"
                 /\ state' = IF raised THEN "RETRY" ELSE "ACCEPTED"
                 /\ response' = IF raised THEN ReturnError ELSE ReturnSuccess
                 /\ returned' = CreateSignalReturns(docs, k)
  /\ storeCalls' = storeCalls + 1
  /\ pc' = "responded"
  /\ UNCHANGED <<variant, retired, requeued, deliveries, cur, decoded,
                 storeBefore, seen, clientVars, sideVars>>

(* mutant: the transport releases the delivery while createSignal is still
   awaited *)
SettleBeforeOutcome ==
  /\ pc \in {"persisting", "responded"}
  /\ pc' = "idle"
  /\ requeued' = IF response.kind = "nack" /\ response.requeue
                 THEN requeued \cup {cur} ELSE requeued
  /\ cur' = NoMessage
  /\ decoded' = DecodedNull
  /\ state' = "NONE"
  /\ response' = NoResponse
  /\ persist' = "none"
  /\ storeBefore' = {}
  /\ storeCalls' = 0
  /\ returned' = NotReturned
  /\ seen' = seen \cup {[decode |-> DecodeOutcome(decoded),
                         persist |-> PersistOutcome(storeCalls, persist),
                         response |-> response]}
  /\ UNCHANGED <<variant, store, usedUuids, retired, deliveries, clientVars, sideVars>>

(* the transport applies the handler's response: a Nack with requeue puts
   the message back on the queue, anything else removes it; the handler's
   invocation is over and its locals are gone *)
Settle ==
  /\ pc = "responded"
  /\ pc' = "idle"
  /\ requeued' = IF response.kind = "nack" /\ response.requeue
                 THEN requeued \cup {cur} ELSE requeued
  /\ cur' = NoMessage
  /\ decoded' = DecodedNull
  /\ state' = "NONE"
  /\ response' = NoResponse
  /\ persist' = "none"
  /\ storeBefore' = {}
  /\ storeCalls' = 0
  /\ returned' = NotReturned
  /\ seen' = seen \cup {[decode |-> DecodeOutcome(decoded),
                         persist |-> PersistOutcome(storeCalls, persist),
                         response |-> response]}
  /\ UNCHANGED <<variant, store, usedUuids, retired, deliveries, clientVars, sideVars>>

Next == Deliver \/ Redeliver \/ Validate \/ Persist \/ Settle

Spec == Init /\ [][Next]_vars

(* One published message followed through its delivery and redelivery.
   handleXrayData is an async function on the event loop: once entered, its
   awaited steps are resumed when the awaited promise settles, so neither
   step stays enabled forever without being taken. *)
FirstDelivery == deliveries = 0 /\ Deliver

NextFair == FirstDelivery \/ Redeliver \/ Validate \/ Persist \/ Settle

SpecFair ==
  Init /\ [][NextFair]_vars /\ WF_vars(Validate) /\ WF_vars(Persist)

(***************************************************************************)
(* The store driven directly: SignalService called by the consumer and by  *)
(* SignalController (create, update, delete, deleteByDeviceId).            *)
(***************************************************************************)
handlerVars == <<variant, requeued, deliveries, pc, cur, decoded, state,
                 response, persist, storeBefore, storeCalls, returned, seen>>

(* what the decoder hands to createSignal: every mapping it can return *)
BulkInputs ==
  { r \in { CleanDataA(m) : m \in Messages } : r.tag = "map" }

(* stored form of the first n points of the stream *)
StoredData(n) == [i \in 1..n |-> MapPoint(ValidData(n)[i])]

(* values a caller of the CRUD API supplies *)
DataPool == { StoredData(n) : n \in 1..MaxPoints }
LenPool == 1..MaxPoints
VolPool == { 0 }
TimePool == { DeviceTime }
DevicePool == Range(Devices)

CreateSignalDtos ==
  { Signal(u, dev, t, dl, dv, d) :
      u \in UUIDs, dev \in DevicePool, t \in TimePool, dl \in LenPool,
      dv \in VolPool, d \in DataPool }

(* UpdateSignalDto: every field optional; an absent field is written with
   has* = FALSE and the first value of its pool *)
First(S) == CHOOSE x \in S : TRUE
OptionalField(S) == { <<TRUE, x>> : x \in S } \cup { <<FALSE, First(S)>> }

(* The object update() receives.  The class declares time, dataLength,
   dataVolume and data; the global ValidationPipe is created without
   `whitelist`, so properties of the request body that the class does not
   declare stay on the object: uuid and deviceId are the two that are paths
   of the schema. *)
UpdateObject(t, dl, dv, d, u, dev) ==
  [hasTime |-> t[1], time |-> t[2], hasLength |-> dl[1], dataLength |-> dl[2],
   hasVolume |-> dv[1], dataVolume |-> dv[2], hasData |-> d[1], data |-> d[2],
   hasUuid |-> u[1], uuid |-> u[2], hasDeviceId |-> dev[1], deviceId |-> dev[2]]

Absent(S) == <<FALSE, First(S)>>

(* bodies that hold declared fields only *)
DeclaredUpdateDtos ==
  { UpdateObject(t, dl, dv, d, Absent(UUIDs), Absent(DevicePool)) :
      t \in OptionalField(TimePool), dl \in OptionalField(LenPool),
      dv \in OptionalField(VolPool), d \in OptionalField(DataPool) }

(* bodies that hold a uuid and / or a deviceId property *)
UndeclaredUpdateDtos ==
  { UpdateObject(Absent(TimePool), Absent(LenPool), Absent(VolPool),
                 Absent(DataPool), u, dev) :
      u \in OptionalField(UUIDs), dev \in OptionalField(DevicePool) }
  \ { UpdateObject(Absent(TimePool), Absent(LenPool), Absent(VolPool),
                   Absent(DataPool), Absent(UUIDs), Absent(DevicePool)) }

UpdateSignalDtos == DeclaredUpdateDtos \cup UndeclaredUpdateDtos

(* createSignal(message) called on the store *)
CreateSignalOp ==
  /\ \E r \in BulkInputs :
       /\ Cardinality(store) + Len(r.keys) <= MaxStore
       /\ \E uuids \in FreshUuidSeqs(Len(r.keys)) :
            LET docs == SignalsToSave(r, uuids)
            IN  \E k \in InsertManyOutcomes(docs, store) :
                  /\ store' = store \cup Written(docs, k)
                  /\ usedUuids' = usedUuids \cup Range(uuids)
  /\ UNCHANGED <<retired, handlerVars, clientVars, sideVars>>

(* create(dto): `new this.signalModel(dto).save()`; the unique index on
   uuid rejects a document whose uuid a stored document carries *)
(* mutant: the uuid property declared without `unique: true` *)
SaveAdmitsWithoutIndex(dto, S) == TRUE

SaveAdmits(dto, S) == dto.uuid \notin Uuids(S)

Create ==
  /\ \E dto \in CreateSignalDtos :
       IF SaveAdmits(dto, store)
       THEN /\ Cardinality(store) < MaxStore
            /\ store' = store \cup {dto}
            /\ usedUuids' = usedUuids \cup {dto.uuid}
       ELSE UNCHANGED <<store, usedUuids>>
  /\ UNCHANGED <<retired, handlerVars, clientVars, sideVars>>

(* the document after findOneAndUpdate applied the dto's fields *)
Updated(s, dto) ==
  [s EXCEPT !.time = IF dto.hasTime THEN dto.time ELSE @,
            !.dataLength = IF dto.hasLength THEN dto.dataLength ELSE @,
            !.dataVolume = IF dto.hasVolume THEN dto.dataVolume ELSE @,
            !.data = IF dto.hasData THEN dto.data ELSE @,
            !.uuid = IF dto.hasUuid THEN dto.uuid ELSE @,
            !.deviceId = IF dto.hasDeviceId THEN dto.deviceId ELSE @]

(* results of the single-record calls: a document or null; a rejected
   write raises *)
Null == [kind |-> "null"]
Doc(s) == [kind |-> "doc", doc |-> s]
Raised == [kind |-> "error"]

(* the unique index on uuid admits the update: it does not give the
   document the uuid of another one *)
UpdateAdmits(S, id, dto) ==
  ~(dto.hasUuid /\ dto.uuid # id /\ dto.uuid \in Uuids(S))

(* mutant: findOneAndUpdate with { upsert: true } *)
AfterUpdateUpserts(S, id, dto) ==
  IF id \in Uuids(S)
  THEN { IF s.uuid = id THEN Updated(s, dto) ELSE s : s \in S }
  ELSE S \cup { Signal(id, "d1", dto.time, dto.dataLength, dto.dataVolume, dto.data) }

(* the collection after findOneAndUpdate({ uuid: id }, dto, { new: true }) *)
AfterUpdate(S, id, dto) ==
  IF UpdateAdmits(S, id, dto)
  THEN { IF s.uuid = id THEN Updated(s, dto) ELSE s : s \in S }
  ELSE S

(* what update returns: the updated document, null when none matched; a
   duplicate key error is raised to the caller *)
UpdateReturns(S, id, dto) ==
  IF ~(\E s \in S : s.uuid = id) THEN Null
  ELSE IF ~UpdateAdmits(S, id, dto) THEN Raised
  ELSE Doc(Updated(CHOOSE s \in S : s.uuid = id, dto))

(* findOne({ uuid: id }) *)
FindOneReturns(S, id) ==
  IF \E s \in S : s.uuid = id THEN Doc(CHOOSE s \in S : s.uuid = id) ELSE Null

(* findOneAndDelete({ uuid: id }) *)
AfterDelete(S, id) == { s \in S : s.uuid # id }
DeleteReturns(S, id) == FindOneReturns(S, id)

(* mutant: deleteOne instead of deleteMany *)
AfterDeleteOneByDeviceId(S, dev) ==
  IF \E s \in S : s.deviceId = dev
  THEN S \ { CHOOSE s \in S : s.deviceId = dev }
  ELSE S

(* deleteMany({ deviceId }) and its deletedCount *)
AfterDeleteByDeviceId(S, dev) == { s \in S : s.deviceId # dev }
DeletedCount(S, dev) == Cardinality(S) - Cardinality(AfterDeleteByDeviceId(S, dev))

(* update(id, dto): findOneAndUpdate({ uuid: id }, dto, { new: true }) *)
Update ==
  /\ \E id \in UUIDs, dto \in UpdateSignalDtos :
       /\ store' = AfterUpdate(store, id, dto)
       /\ usedUuids' = usedUuids \cup Uuids(AfterUpdate(store, id, dto))
  /\ UNCHANGED <<retired, handlerVars, clientVars, sideVars>>

(* delete(id): findOneAndDelete({ uuid: id }) *)
Delete ==
  /\ \E id \in UUIDs :
       /\ store' = AfterDelete(store, id)
       /\ retired' = retired \cup (Uuids(store) \cap {id})
  /\ UNCHANGED <<usedUuids, handlerVars, clientVars, sideVars>>

(* deleteByDeviceId(deviceId): deleteMany({ deviceId }) *)
DeleteByDeviceId ==
  /\ \E dev \in DevicePool \cup Range(ArrayKeys) :
       /\ store' = AfterDeleteByDeviceId(store, dev)
       /\ retired' = retired \cup Uuids({ s \in store : s.deviceId = dev })
  /\ UNCHANGED <<usedUuids, handlerVars, clientVars, sideVars>>

NextStore == CreateSignalOp \/ Create \/ Update \/ Delete \/ DeleteByDeviceId

(* the store alone: the consumer never starts a delivery *)
InitStore == Init /\ variant = "A"

SpecStore == InitStore /\ [][NextStore]_vars

(***************************************************************************)
(* The query side: SignalController.findAll behind the global              *)
(* ValidationPipe, and SignalService.findWithFilters.                      *)
(***************************************************************************)
(* further JavaScript values: a string, a uuid string (never empty), a
   query-string value as its characters, and NaN *)
Str(v) == [t |-> "str", s |-> v]
Uid(u) == [t |-> "uuid", v |-> u]
Chars(c) == [t |-> "chars", c |-> c]
NaN == [t |-> "nan", v |-> 0]

(* `if (x)` / `x || d`: undefined, 0, NaN and "" are falsy *)
Truthy(j) ==
  CASE j.t = "undef" -> FALSE
    [] j.t = "nan" -> FALSE
    [] j.t = "num" -> j.v # 0
    [] j.t = "str" -> j.s # ""
    [] j.t = "chars" -> j.c # <<>>
    [] OTHER -> TRUE

(* `x ?? d`: only undefined / null is replaced *)
Nullish(j) == j.t = "undef"

(* defaults of the controller (||) and of the service (??) *)
DefaultPage == 1
DefaultLimit == 10
ServiceDefaultPage == 1
ServiceDefaultLimit == 10

OrDefault(j, d) == IF Truthy(j) THEN j.v ELSE d
CoalesceDefault(j, d) == IF Nullish(j) THEN d ELSE j.v

(* Number(text) for the text of a query-string value *)
Digits == <<"0", "1", "2", "3", "4", "5", "6", "7", "8", "9">>
IsDigit(c) == \E i \in 1..10 : Digits[i] = c
DigitOf(c) == (CHOOSE i \in 1..10 : Digits[i] = c) - 1
AllDigits(cs) == Len(cs) >= 1 /\ \A i \in 1..Len(cs) : IsDigit(cs[i])

RECURSIVE DigitsValue(_, _)
DigitsValue(cs, acc) ==
  IF cs = <<>> THEN acc ELSE DigitsValue(Tail(cs), 10 * acc + DigitOf(Head(cs)))

ParseNumber(cs) ==
  IF cs = <<>> THEN Num(0)
  ELSE IF Head(cs) = "-"
       THEN (IF AllDigits(Tail(cs)) THEN Num(0 - DigitsValue(Tail(cs), 0)) ELSE NaN)
  ELSE IF AllDigits(cs) THEN Num(DigitsValue(cs, 0))
  ELSE NaN

(* @Type(() => Number): an absent property stays absent *)
ToNumber(j) == IF j.t = "chars" THEN ParseNumber(j.c) ELSE j

(* class-validator decorators of signal/type.ts *)
IsOptional(j, ok) == Nullish(j) \/ ok
IsString(j) == j.t \in {"str", "chars", "uuid"}
IsUUID(j) == j.t = "uuid"
IsPositive(j) == j.t = "num" /\ j.v > 0
Min(j, n) == j.t = "num" /\ j.v >= n

(* the query string of GET /signals; every value is absent or a string *)
RawQuery(d, u, t, dl, dv, pg, lim) ==
  [deviceId |-> d, uuid |-> u, time |-> t, dataLength |-> dl, dataVolume |-> dv,
   page |-> pg, limit |-> lim]

RawNumbers ==
  { Undef, Chars(<<>>), Chars(<<"0">>), Chars(<<"-", "1">>), Chars(<<"1">>),
    Chars(<<"2">>), Chars(<<"1", "0">>), Chars(<<"x">>) }

RawQueries ==
  { RawQuery(d, u, t, dl, Undef, pg, lim) :
      d \in { Undef, Str("d1"), Str("") }, u \in { Undef, Uid(1) },
      t \in { Undef, Chars(<<"4", "5", "7">>) }, dl \in { Undef, Chars(<<"1">>) },
      pg \in RawNumbers, lim \in RawNumbers }

(* ValidationPipe({ transform: true }): plainToInstance without implicit
   conversion, so only the properties with @Type are converted *)
FilterDto(d, u, t, dl, dv) ==
  [deviceId |-> d, uuid |-> u, time |-> t, dataLength |-> dl, dataVolume |-> dv,
   page |-> Undef, limit |-> Undef]
Pagination(pg, lim) == [page |-> pg, limit |-> lim]

(* the pipe has no whitelist: the FilterSignalDto instance also carries the
   page and limit of the query, as the strings they arrived as *)
ToFilterSignalDto(q) ==
  [FilterDto(q.deviceId, q.uuid, q.time, q.dataLength, q.dataVolume)
     EXCEPT !.page = q.page, !.limit = q.limit]
ToPaginationDto(q) == Pagination(ToNumber(q.page), ToNumber(q.limit))

ValidFilterSignalDto(f) ==
  /\ IsOptional(f.deviceId, IsString(f.deviceId))
  /\ IsOptional(f.uuid, IsUUID(f.uuid))
  /\ IsOptional(f.time, IsInt(f.time))
  /\ IsOptional(f.dataLength, IsNumber(f.dataLength))
  /\ IsOptional(f.dataVolume, IsNumber(f.dataVolume))

ValidPaginationDto(p) ==
  /\ IsOptional(p.page, IsNumber(p.page) /\ IsPositive(p.page))
  /\ IsOptional(p.limit, IsNumber(p.limit) /\ Min(p.limit, 1))

(* Object.keys(dto).length: the instances carry every property of the query *)
HasKeys(q) ==
  \E k \in { "deviceId", "uuid", "time", "dataLength", "dataVolume", "page", "limit" } :
    q[k].t # "undef"

EmptyFilter == FilterDto(Undef, Undef, Undef, Undef, Undef)

(* SignalController.findAll: the arguments it hands to findWithFilters *)
FindAllForwards(q, f, p) ==
  [filters |-> IF HasKeys(q) THEN f ELSE EmptyFilter,
   pagination |-> Pagination(Num(OrDefault(p.page, DefaultPage)),
                             Num(OrDefault(p.limit, DefaultLimit)))]

NotForwarded == [filters |-> EmptyFilter, pagination |-> Pagination(Undef, Undef)]
BadRequest == [kind |-> "badRequest"]

(* mutant: a page on the filters narrows the query *)
MatchesReadsPage(s, f) ==
  /\ Truthy(f.deviceId) => s.deviceId = f.deviceId.s
  /\ Truthy(f.uuid) => s.uuid = f.uuid.v
  /\ Truthy(f.time) => s.time.v >= f.time.v
  /\ Truthy(f.dataLength) => s.dataLength = f.dataLength.v
  /\ Truthy(f.dataVolume) => s.dataVolume = f.dataVolume.v
  /\ Truthy(f.page) => s.dataLength = Len(f.page.c)

(* SignalService.findWithFilters: the FilterQuery built from the filters *)
Matches(s, f) ==
  /\ Truthy(f.deviceId) => s.deviceId = f.deviceId.s
  /\ Truthy(f.uuid) => s.uuid = f.uuid.v
  /\ Truthy(f.time) => s.time.v >= f.time.v
  /\ Truthy(f.dataLength) => s.dataLength = f.dataLength.v
  /\ Truthy(f.dataVolume) => s.dataVolume = f.dataVolume.v

Matching(S, f) == { s \in S : Matches(s, f) }

(* sort({ time: -1 }): descending by time; the order among documents of
   equal time is not fixed by the query, the store returns them in either
   order of insertion *)
TieBreaks == { "asc", "desc" }

Before(a, b, tb) ==
  \/ a.time.v > b.time.v
  \/ /\ a.time.v = b.time.v
     /\ IF tb = "asc" THEN a.uuid < b.uuid ELSE a.uuid > b.uuid

SortedByTimeDesc(M, tb) ==
  [i \in 1..Cardinality(M) |->
     CHOOSE s \in M : Cardinality({ a \in M : Before(a, s, tb) }) = i - 1]

(* mutant: Math.floor instead of Math.ceil *)
FloorDiv(a, b) == a \div b

(* Math.ceil(a / b) for a >= 0, b >= 1 *)
CeilDiv(a, b) == (a + b - 1) \div b

Skip(page, limit) == (page - 1) * limit

(* .skip(skip).limit(limit) applied to the sorted result *)
TakePage(sorted, skip, limit) ==
  IF skip >= Len(sorted) THEN <<>>
  ELSE SubSeq(sorted, skip + 1,
              IF skip + limit < Len(sorted) THEN skip + limit ELSE Len(sorted))

FindWithFilters(S, f, p, tb) ==
  LET page == CoalesceDefault(p.page, ServiceDefaultPage)
      limit == CoalesceDefault(p.limit, ServiceDefaultLimit)
      M == Matching(S, f)
  IN  [kind |-> "page",
       data |-> TakePage(SortedByTimeDesc(M, tb), Skip(page, limit), limit),
       totalCount |-> Cardinality(M),
       totalPages |-> CeilDiv(Cardinality(M), limit),
       currentPage |-> page,
       limit |-> limit]

FindWithFiltersOutcomes(S, f, p) == { FindWithFilters(S, f, p, tb) : tb \in TieBreaks }

(* what callers of the service pass *)
FilterSignalDtos ==
  { FilterDto(d, u, t, dl, dv) :
      d \in { Undef, Str("d1"), Str("d2"), Str("") },
      u \in { Undef, Uid(1), Uid(MaxSignals + 1) },
      t \in { Undef, Num(0), Num(457) },
      dl \in { Undef, Num(0), Num(1) },
      dv \in { Undef, Num(0), Num(JsonByteLength(StoredData(2))) } }

PaginationDtos ==
  { Pagination(pg, lim) :
      pg \in { Undef, Num(1), Num(2), Num(3) },
      lim \in { Undef, Num(1), Num(2), Num(10) } }

(* the collections that are queried: i documents written one after the
   other; every second shares its time with its predecessor, the second
   belongs to device d2, the even ones were stored by create() with a
   dataVolume of 0, the odd ones by createSignal *)
QuerySignal(i) ==
  LET d == StoredData(1 + (i % 2))
  IN  Signal(i, IF i = 2 THEN "d2" ELSE "d1", Num(456 + ((i - 1) \div 2)), Len(d),
             IF i % 2 = 0 THEN 0 ELSE JsonByteLength(d), d)

QueryStores == { { QuerySignal(i) : i \in 1..n } : n \in 0..MaxSignals }
QueryUuids == 1..(MaxSignals + 1)

InitQuery ==
  /\ variant = "A"
  /\ store \in QueryStores
  /\ usedUuids = Uuids(store)
  /\ retired = {}
  /\ requeued = {}
  /\ deliveries = 0
  /\ pc = "idle"
  /\ cur = NoMessage
  /\ decoded = DecodedNull
  /\ state = "NONE"
  /\ response = NoResponse
  /\ persist = "none"
  /\ storeBefore = store
  /\ storeCalls = 0
  /\ returned = NotReturned
  /\ seen = {}
  /\ request = NoRequest
  /\ result = NoResult
  /\ inserts = NoInserts
  /\ posted = NoMessage
  /\ published = <<>>

queryFrame == <<variant, requeued, deliveries, pc, cur, decoded, state,
                response, persist, storeCalls, returned, seen>>

(* GET /signals: the pipe builds and validates both DTOs, findAll forwards
   them to findWithFilters *)
CallFindAll ==
  /\ request = NoRequest
  /\ \E q \in RawQueries, tb \in TieBreaks :
       LET f == ToFilterSignalDto(q)
           p == ToPaginationDto(q)
           ok == ValidFilterSignalDto(f) /\ ValidPaginationDto(p)
           args == FindAllForwards(q, f, p)
       IN  /\ request' = [op |-> "findAll", query |-> q,
                          forwarded |-> IF ok THEN args ELSE NotForwarded]
           /\ result' = IF ok
                        THEN FindWithFilters(store, args.filters, args.pagination, tb)
                        ELSE BadRequest
  /\ storeBefore' = store
  /\ UNCHANGED <<store, usedUuids, retired, queryFrame, sideVars>>

(* SignalService.findWithFilters called with typed DTOs *)
CallFindWithFilters ==
  /\ request = NoRequest
  /\ \E f \in FilterSignalDtos, p \in PaginationDtos, tb \in TieBreaks :
       /\ request' = [op |-> "findWithFilters", filters |-> f, pagination |-> p]
       /\ result' = FindWithFilters(store, f, p, tb)
  /\ storeBefore' = store
  /\ UNCHANGED <<store, usedUuids, retired, queryFrame, sideVars>>

(* GET /signals/:id *)
CallFindOne ==
  /\ request = NoRequest
  /\ \E id \in QueryUuids :
       /\ request' = [op |-> "findOne", id |-> id]
       /\ result' = FindOneReturns(store, id)
  /\ storeBefore' = store
  /\ UNCHANGED <<store, usedUuids, retired, queryFrame, sideVars>>

(* PUT /signals/:id *)
CallUpdate ==
  /\ request = NoRequest
  /\ \E id \in QueryUuids, dto \in UpdateSignalDtos :
       /\ request' = [op |-> "update", id |-> id, dto |-> dto]
       /\ result' = UpdateReturns(store, id, dto)
       /\ store' = AfterUpdate(store, id, dto)
       /\ usedUuids' = usedUuids \cup Uuids(AfterUpdate(store, id, dto))
  /\ storeBefore' = store
  /\ UNCHANGED <<retired, queryFrame, sideVars>>

(* mutant: save() replaces the document that carries the uuid *)
AfterCreateReplaces(S, dto) == { s \in S : s.uuid # dto.uuid } \cup {dto}

(* the collection after `new this.signalModel(dto).save()`, and what create
   returns: the saved document, or the duplicate key error of the index *)
AfterCreate(S, dto) == IF SaveAdmits(dto, S) THEN S \cup {dto} ELSE S
CreateReturns(S, dto) == IF SaveAdmits(dto, S) THEN Doc(dto) ELSE Raised

(* POST /signals *)
CallCreate ==
  /\ request = NoRequest
  /\ \E dto \in CreateSignalDtos :
       /\ request' = [op |-> "create", dto |-> dto]
       /\ result' = CreateReturns(store, dto)
       /\ store' = AfterCreate(store, dto)
       /\ usedUuids' = usedUuids \cup Uuids(AfterCreate(store, dto))
  /\ storeBefore' = store
  /\ UNCHANGED <<retired, queryFrame, sideVars>>

(* DELETE /signals/:id *)
CallDelete ==
  /\ request = NoRequest
  /\ \E id \in QueryUuids :
       /\ request' = [op |-> "delete", id |-> id]
       /\ result' = DeleteReturns(store, id)
       /\ store' = AfterDelete(store, id)
       /\ retired' = retired \cup (Uuids(store) \cap {id})
  /\ storeBefore' = store
  /\ UNCHANGED <<usedUuids, queryFrame, sideVars>>

(* DELETE /signals/by-device/:deviceId *)
CallDeleteByDeviceId ==
  /\ request = NoRequest
  /\ \E dev \in DevicePool \cup Range(ArrayKeys) :
       /\ request' = [op |-> "deleteByDeviceId", deviceId |-> dev]
       /\ result' = [kind |-> "deleted", deletedCount |-> DeletedCount(store, dev)]
       /\ store' = AfterDeleteByDeviceId(store, dev)
       /\ retired' = retired \cup Uuids({ s \in store : s.deviceId = dev })
  /\ storeBefore' = store
  /\ UNCHANGED <<usedUuids, queryFrame, sideVars>>

NextQuery ==
  \/ CallFindAll
  \/ CallFindWithFilters
  \/ CallFindOne
  \/ CallCreate
  \/ CallUpdate
  \/ CallDelete
  \/ CallDeleteByDeviceId

SpecQuery == InitQuery /\ [][NextQuery]_vars

(***************************************************************************)
(* findWithFilters beside other callers.  The method awaits two queries    *)
(* one after the other, countDocuments and then find().skip().limit()      *)
(* .sort(); each reads the collection as it is when the server runs it,    *)
(* and a write of another caller can be applied between the two.           *)
(***************************************************************************)
InterleavedFilters ==
  { FilterDto(d, Undef, t, Undef, Undef) :
      d \in { Undef, Str("d1") }, t \in { Undef, Num(457) } }

(* the call up to `await countDocuments(query)`: totalCount is a local *)
FindWithFiltersCounts ==
  /\ request = NoRequest
  /\ \E f \in InterleavedFilters, p \in PaginationDtos :
       request' = [op |-> "findWithFilters", filters |-> f, pagination |-> p,
                   totalCount |-> Cardinality(Matching(store, f))]
  /\ UNCHANGED <<store, usedUuids, retired, storeBefore, result, queryFrame, sideVars>>

Counted == request.op = "findWithFilters" /\ result = NoResult

(* another caller's create(dto) served while the call awaits *)
OtherCallerCreates ==
  /\ Counted
  /\ storeCalls = 0
  /\ \E i \in QueryUuids :
       /\ store' = AfterCreate(store, QuerySignal(i))
       /\ usedUuids' = usedUuids \cup Uuids(AfterCreate(store, QuerySignal(i)))
  /\ storeCalls' = 1
  /\ UNCHANGED <<retired, storeBefore, clientVars, sideVars, variant, requeued,
                 deliveries, pc, cur, decoded, state, response, persist,
                 returned, seen>>

(* another caller's delete(id) served while the call awaits *)
OtherCallerDeletes ==
  /\ Counted
  /\ storeCalls = 0
  /\ \E id \in QueryUuids :
       /\ store' = AfterDelete(store, id)
       /\ retired' = retired \cup (Uuids(store) \cap {id})
  /\ storeCalls' = 1
  /\ UNCHANGED <<usedUuids, storeBefore, clientVars, sideVars, variant, requeued,
                 deliveries, pc, cur, decoded, state, response, persist,
                 returned, seen>>

(* the page the second query reads from S, under the count taken before *)
PageUnderCount(S, f, p, tb, totalCount) ==
  LET page == CoalesceDefault(p.page, ServiceDefaultPage)
      limit == CoalesceDefault(p.limit, ServiceDefaultLimit)
  IN  [kind |-> "page",
       data |-> TakePage(SortedByTimeDesc(Matching(S, f), tb), Skip(page, limit), limit),
       totalCount |-> totalCount,
       totalPages |-> CeilDiv(totalCount, limit),
       currentPage |-> page,
       limit |-> limit]

(* `await find(query).skip(skip).limit(limit).sort({ time: -1 })` and the
   return; storeBefore records the collection the data was read from *)
FindWithFiltersReads ==
  /\ Counted
  /\ \E tb \in TieBreaks :
       result' = PageUnderCount(store, request.filters, request.pagination, tb,
                                request.totalCount)
  /\ storeBefore' = store
  /\ UNCHANGED <<store, usedUuids, retired, request, queryFrame, sideVars>>

NextInterleaved ==
  \/ FindWithFiltersCounts
  \/ OtherCallerCreates
  \/ OtherCallerDeletes
  \/ FindWithFiltersReads

SpecInterleaved == InitQuery /\ [][NextInterleaved]_vars

(***************************************************************************)
(* Several consumer instances on one collection.  Each runs createSignal   *)
(* on its own message; the call yields at `await insertMany`, and the      *)
(* server applies the single-document writes of the calls in any order.    *)
(***************************************************************************)
concurrentFrame == <<retired, handlerVars, clientVars, posted, published>>

(* createSignal up to the call of insertMany: one uuid and one document per
   device key; with nothing to save it returns [] at once *)
CreateSignalBegin(i) ==
  /\ inserts[i].phase = "idle"
  /\ \E r \in BulkInputs :
       \E uuids \in FreshUuidSeqs(Len(r.keys)) :
         LET docs == SignalsToSave(r, uuids)
         IN  /\ inserts' = [inserts EXCEPT ![i] =
                   IF Len(docs) = 0
                   THEN InsertCall("returned", docs, 0, CreateSignalReturns(docs, 0))
                   ELSE InsertCall("inserting", docs, 0, NotReturned)]
             /\ usedUuids' = usedUuids \cup Range(uuids)
  /\ UNCHANGED <<store, concurrentFrame>>

(* the server writes the next document of instance i's ordered insertMany;
   the unique index on uuid has to admit it *)
InsertManyWrites(i) ==
  LET c == inserts[i]
  IN  /\ c.phase = "inserting"
      /\ c.written < Len(c.docs)
      /\ IndexAdmits(c.docs, c.written + 1, store)
      /\ store' = store \cup {c.docs[c.written + 1]}
      /\ inserts' = [inserts EXCEPT ![i].written = c.written + 1]
      /\ UNCHANGED <<usedUuids, concurrentFrame>>

(* every document was written: insertMany resolves and createSignal returns
   savedSignals *)
InsertManyResolves(i) ==
  LET c == inserts[i]
  IN  /\ c.phase = "inserting"
      /\ c.written = Len(c.docs)
      /\ inserts' = [inserts EXCEPT ![i].phase = "returned",
                                    ![i].returned = CreateSignalReturns(c.docs, c.written)]
      /\ UNCHANGED <<store, usedUuids, concurrentFrame>>

(* a write fails: insertMany rejects, nothing is undone, and the catch block
   of createSignal returns [] *)
InsertManyRejects(i) ==
  LET c == inserts[i]
  IN  /\ c.phase = "inserting"
      /\ c.written < Len(c.docs)
      /\ inserts' = [inserts EXCEPT ![i].phase = "returned",
                                    ![i].returned = CreateSignalReturns(c.docs, c.written)]
      /\ UNCHANGED <<store, usedUuids, concurrentFrame>>

NextConcurrent ==
  \/ \E i \in Instances : CreateSignalBegin(i)
  \/ \E i \in Instances : InsertManyWrites(i)
  \/ \E i \in Instances : InsertManyResolves(i)
  \/ \E i \in Instances : InsertManyRejects(i)

InitConcurrent == Init /\ variant = "A"

SpecConcurrent == InitConcurrent /\ [][NextConcurrent]_vars

(***************************************************************************)
(* The producer: POST /producer/publish-manual, ProducerController         *)
(* .publishDataManually -> ProducerService.publishDataFromHttp ->          *)
(* _publishMessage.  XrayDataPipe is not applied and the parameter's type  *)
(* is imported as a type only, so the parsed JSON body reaches the service *)
(* as it was posted.                                                       *)
(***************************************************************************)
(* bodies the JSON body parser hands on: an object or an array *)
Bodies == { m \in Messages : m.kind \in {"object", "array"} }

(* `xray.data.${deviceId}` *)
RoutingKey(deviceId) == [prefix |-> "xray.data", deviceId |-> deviceId]

(* what amqpConnection.publish is called with for one entry:
   message = { [deviceId]: deviceData } *)
Publication(deviceId, deviceData) ==
  [routingKey |-> RoutingKey(deviceId),
   message |-> Msg("object", <<deviceId>>, <<deviceData>>)]

(* mutant: the body is published once, as it was posted *)
PublishWholeBody(devices, ok, i) ==
  IF \A j \in 1..Len(devices.keys) : ok[j]
  THEN <<[routingKey |-> RoutingKey("all"), message |-> devices]>>
  ELSE <<>>

(* mutant: the loop ends at the first publish that fails *)
RECURSIVE PublishUntilFailure(_, _, _)
PublishUntilFailure(devices, ok, i) ==
  IF i > Len(devices.keys) \/ ~ok[i] THEN <<>>
  ELSE <<Publication(devices.keys[i], devices.ents[i])>>
       \o PublishUntilFailure(devices, ok, i + 1)

(* the loop over Object.entries(devices) from entry i on: one publish per
   entry; ok[i] tells whether the i-th publish succeeded, and a failed one
   is caught and the loop goes on *)
RECURSIVE PublishMessage(_, _, _)
PublishMessage(devices, ok, i) ==
  IF i > Len(devices.keys) THEN <<>>
  ELSE (IF ok[i] THEN <<Publication(devices.keys[i], devices.ents[i])>> ELSE <<>>)
       \o PublishMessage(devices, ok, i + 1)

(* the array _publishMessage returns: one {success} per entry *)
PublishResults(devices, ok) ==
  [kind |-> "published", results |-> [i \in 1..Len(devices.keys) |-> ok[i]]]

producerFrame == <<store, usedUuids, retired, handlerVars, inserts>>

PublishDataManually ==
  /\ \E body \in Bodies :
       \E ok \in [1..Len(body.keys) -> BOOLEAN] :
         /\ posted' = body
         /\ published' = PublishMessage(body, ok, 1)
         /\ request' = [op |-> "publishManual"]
         /\ result' = PublishResults(body, ok)
  /\ UNCHANGED producerFrame

NextProducer == PublishDataManually

InitProducer == Init /\ variant = "A"

SpecProducer == InitProducer /\ [][NextProducer]_vars

(***************************************************************************)
(* Properties                                                              *)
(***************************************************************************)
Responded == pc = "responded"
NewSignals == store \ storeBefore
Requeues(r) == r.kind = "nack" /\ r.requeue

(* C1: the three terminal outcomes map onto three pairwise distinct
   transport responses: ACCEPTED gives ack, DEAD_LETTERED gives reject
   without requeue, RETRY gives reject with requeue. *)
C1_OutcomesMapOneToOne ==
  Responded =>
    /\ state = "ACCEPTED" => response = Ack
    /\ state = "DEAD_LETTERED" => response = Nack(FALSE)
    /\ state = "RETRY" => response = Nack(TRUE)

(* C2: when the store's insert fails for a non-empty decoded mapping,
   handleXrayData returns reject-with-requeue. *)
C2_InsertFailureRequeues ==
  (Responded /\ persist = "failed") => response = Nack(TRUE)

(* C3: a message with at least one valid device entry is removed from the
   queue without requeue only if one Signal per valid device of it is in the
   store; it is ACCEPTED only when its bulk insert completed. *)
C3_NoMessageLost ==
  (/\ Responded
   /\ cur.kind = "object"
   /\ decoded.tag = "map"
   /\ Len(decoded.keys) >= 1) =>
    /\ ~Requeues(response) =>
         \A i \in 1..Len(decoded.keys) :
           \E s \in NewSignals : s.deviceId = decoded.keys[i]
    /\ state = "ACCEPTED" => persist = "ok"

(* C4: a top-level null, string or array is decoded to null, dead-lettered
   (reject without requeue) and createSignal is not invoked for it. *)
C4_TopLevelInvalidDeadLetters ==
  (Responded /\ cur.kind \in {"null", "string", "array"}) =>
    /\ decoded = DecodedNull
    /\ response = Nack(FALSE)
    /\ storeCalls = 0
    /\ store = storeBefore

(* C5: a point element that does not destructure invalidates only its own
   device entry: the delivery is not turned into a RETRY, the decoder still
   returns the other valid entries and they are persisted. *)
C5_MalformedPointDropsOnlyItsDevice ==
  (/\ Responded
   /\ cur.kind = "object"
   /\ \E i \in 1..Len(cur.keys) : ~SkipsEntry(cur.ents[i]) /\ MapThrows(cur.ents[i])
   /\ \E j \in 1..Len(cur.keys) : Survives(cur.ents[j])) =>
    /\ state # "RETRY"
    /\ decoded.tag = "map"
    /\ \A j \in 1..Len(cur.keys) :
         Survives(cur.ents[j]) =>
           /\ \E n \in 1..Len(decoded.keys) : decoded.keys[n] = cur.keys[j]
           /\ persist = "ok" => \E s \in NewSignals : s.deviceId = cur.keys[j]

(* C6: when the store raises during the bulk insert of a message, no Signal
   of that attempt is in the store afterwards (all or nothing). *)
C6_FailedInsertLeavesNothing ==
  (Responded /\ persist = "failed") => store = storeBefore

(* C7: a completed bulk insert for a message with N validated devices adds
   exactly N Signals, one per device key with that deviceId, the device's
   time and dataLength equal to its number of points; their uuids are
   pairwise distinct and differ from every uuid already in the store. *)
C7_BulkInsertOnePerDevice ==
  (Responded /\ persist = "ok") =>
    /\ storeBefore \subseteq store
    /\ Cardinality(NewSignals)
         = Cardinality({ i \in 1..Len(cur.keys) : Survives(cur.ents[i]) })
    /\ \A i \in 1..Len(cur.keys) :
         Survives(cur.ents[i]) =>
           \E s \in NewSignals :
             /\ s.deviceId = cur.keys[i]
             /\ s.time = cur.ents[i].time
             /\ s.dataLength = Len(cur.ents[i].data)
             /\ s.dataLength >= 1
    /\ Cardinality(Uuids(NewSignals)) = Cardinality(NewSignals)
    /\ Uuids(NewSignals) \cap Uuids(storeBefore) = {}

(* a two-device message was persisted into a store that held a Signal *)
C7_Witness ==
  /\ Responded
  /\ persist = "ok"
  /\ Cardinality(NewSignals) = 2
  /\ storeBefore # {}
  /\ \E s \in NewSignals : s.dataLength = MaxPoints

(* C8 as claimed: no two persisted Signals share a uuid, and no uuid that a
   Signal ever carried is later carried by a different Signal. *)
C8_UuidNeverReused ==
  /\ \A s, t \in store : s.uuid = t.uuid => s = t
  /\ \A s \in store : s.uuid \notin retired

(* C8 as amended: in every state of the store, after any sequence of
   createSignal, create, update, delete and deleteByDeviceId calls, no two
   persisted Signals share a uuid. *)
C8_UuidUniqueAmongPersisted ==
  \A s, t \in store : s.uuid = t.uuid => s = t

(* the store is full and one of its Signals carries the uuid of a Signal
   that was deleted before *)
C8_Witness ==
  /\ Cardinality(store) = MaxStore
  /\ \E s \in store : s.uuid \in retired

(* C9: every persisted Signal has dataLength equal to the number of elements
   of its data array, after any sequence of createSignal, create and update
   calls. *)
C9_DataLengthMatchesData ==
  \A s \in store : s.dataLength = Len(s.data)

(* the message with every caller-supplied dataLength / dataVolume removed *)
StripExtras(m) ==
  [m EXCEPT !.ents = [i \in 1..Len(m.ents) |->
                        [m.ents[i] EXCEPT !.declLen = Undef, !.declVol = Undef]]]

(* C10: on the bulk path dataLength and dataVolume of each created Signal
   are computed from the persisted points only: they are the length and the
   serialized size of its data, and any message that differs from the
   handled one only in caller-supplied dataLength / dataVolume fields yields
   the same dataLength and dataVolume per device. *)
C10_DerivedFieldsIgnoreCallerFields ==
  (Responded /\ persist = "ok") =>
    /\ \A s \in NewSignals :
         /\ s.dataLength = Len(s.data)
         /\ s.dataVolume = JsonByteLength(s.data)
    /\ \A m2 \in Messages :
         StripExtras(m2) = StripExtras(cur) =>
           LET r2 == CleanData(variant, m2)
               docs2 == SignalsToSave(r2, [i \in 1..Len(r2.keys) |-> i])
           IN  /\ Len(docs2) = Cardinality(NewSignals)
               /\ \A i \in 1..Len(docs2) :
                    \E s \in NewSignals :
                      /\ s.deviceId = docs2[i].deviceId
                      /\ s.dataLength = docs2[i].dataLength
                      /\ s.dataVolume = docs2[i].dataVolume

(* a message whose entry carries caller-supplied dataLength / dataVolume
   that differ from the derived values was persisted *)
C10_Witness ==
  /\ Responded
  /\ persist = "ok"
  /\ \E i \in 1..Len(cur.keys) :
       /\ Survives(cur.ents[i])
       /\ cur.ents[i].declLen.t = "num"
       /\ cur.ents[i].declLen.v # Len(cur.ents[i].data)

(* C11: createSignal reports a failed insert distinguishably from "nothing
   to insert": it returns an empty array only when the input mapping was
   empty, and for a non-empty mapping whose insert fails it raises or returns
   an explicit error. *)
C11_FailureDistinctFromEmpty ==
  (Responded /\ storeCalls = 1) =>
    /\ returned = Returned("array", 0) => Len(decoded.keys) = 0
    /\ persist = "failed" => returned.kind = "error"

(* C12: in a message with a null entry or an entry whose data is not an
   array, the decoder returns a mapping whose key set is exactly the set of
   keys whose entry passes validation, validate is invoked exactly once per
   entry that has an array data, and the kept entries are persisted. *)
C12_NonArrayEntryDropsOnlyItself ==
  (/\ Responded
   /\ cur.kind = "object"
   /\ \E i \in 1..Len(cur.keys) : SkipsEntry(cur.ents[i])) =>
    /\ decoded.tag # "throw"
    /\ Range(decoded.keys)
         = { cur.keys[i] : i \in { j \in 1..Len(cur.keys) : Survives(cur.ents[j]) } }
    /\ ValidateCallsFrom(cur, 1)
         = Cardinality({ i \in 1..Len(cur.keys) : ~SkipsEntry(cur.ents[i]) })
    /\ persist = "ok" =>
         \A i \in 1..Len(cur.keys) :
           Survives(cur.ents[i]) => \E s \in NewSignals : s.deviceId = cur.keys[i]

(* C13: an exception raised while decoding makes handleXrayData return
   reject-with-requeue; createSignal is not invoked, the store is untouched
   and the handler returns a response instead of propagating. *)
C13_DecodeExceptionRequeues ==
  (Responded /\ decoded.tag = "throw") =>
    /\ response = Nack(TRUE)
    /\ state = "RETRY"
    /\ storeCalls = 0
    /\ store = storeBefore

(* the decoder raised on a redelivery into a store that holds Signals *)
C13_Witness ==
  /\ Responded
  /\ decoded.tag = "throw"
  /\ deliveries = MaxDeliveries
  /\ store # {}

(* C14: the acknowledgment decision is a function of the pair {decode
   outcome, persist outcome}: a delivery answers as every settled delivery
   with the same pair did, whatever the store holds, however many deliveries
   were made and whatever was handled before. *)
C14_DecisionIsFunctionOfOutcomes ==
  Responded =>
    \A t \in seen :
      (/\ t.decode = DecodeOutcome(decoded)
       /\ t.persist = PersistOutcome(storeCalls, persist)) =>
        t.response = response

(* a second delivery completed its insert into a store that the first
   delivery, with the same outcome pair, had found empty *)
C14_Witness ==
  /\ Responded
  /\ persist = "ok"
  /\ storeBefore # {}
  /\ \E t \in seen : t.decode = "mapping" /\ t.persist = "completed"

(* C15: findOne, update and delete called with a uuid that no persisted
   Signal carries return null, raise nothing and leave the store unchanged. *)
C15_MissingUuidReturnsNull ==
  (/\ request.op \in {"findOne", "update", "delete"}
   /\ request.id \notin Uuids(storeBefore)) =>
    /\ result = Null
    /\ store = storeBefore

(* update was called with an unknown uuid on a store that holds Signals *)
C15_Witness ==
  /\ request.op = "update"
  /\ request.id \notin Uuids(storeBefore)
  /\ request.dto.hasLength
  /\ Cardinality(storeBefore) >= 2

(* a filter field is applied exactly when it is present *)
Present(j) == j.t # "undef"

ClaimedMatches(s, f) ==
  /\ Present(f.deviceId) => s.deviceId = f.deviceId.s
  /\ Present(f.uuid) => s.uuid = f.uuid.v
  /\ Present(f.time) => s.time.v >= f.time.v
  /\ Present(f.dataLength) => s.dataLength = f.dataLength.v
  /\ Present(f.dataVolume) => s.dataVolume = f.dataVolume.v

(* C16: findWithFilters selects exactly the Signals that satisfy every
   filter field that is present, whatever its value (0 and "" included); an
   absent field places no restriction. *)
C16_PresentFiltersAreApplied ==
  request.op = "findWithFilters" =>
    LET M == { s \in store : ClaimedMatches(s, request.filters) }
    IN  /\ result.totalCount = Cardinality(M)
        /\ Range(result.data) \subseteq M

(* C17: on an unchanged store, page p with limit L is sorted by time
   descending, has at most L elements and holds the elements at positions
   (p-1)*L+1 .. p*L of the sorted matching Signals; pages 1..totalPages are
   pairwise disjoint and together hold every matching Signal; a page beyond
   totalPages is empty. *)
C17_PagesPartitionTheMatches ==
  request.op = "findWithFilters" =>
    LET L == result.limit
        pg == result.currentPage
        n == result.totalCount
        d == result.data
        rest == IF n > (pg - 1) * L THEN n - (pg - 1) * L ELSE 0
    IN  /\ \A i, j \in 1..Len(d) : i < j => d[i].time.v >= d[j].time.v
        /\ Len(d) <= L
        /\ Len(d) = IF rest < L THEN rest ELSE L
        /\ pg > result.totalPages => d = <<>>
        /\ \A q \in 1..result.totalPages :
             q # pg =>
               \A r \in FindWithFiltersOutcomes(store, request.filters,
                                                Pagination(Num(q), Num(L))) :
                 Range(r.data) \cap Range(d) = {}

(* GET /signals?deviceId=d1 and nothing else *)
QueriesDeviceD1Only ==
  /\ request.op = "findAll"
  /\ request.query = RawQuery(Str("d1"), Undef, Undef, Undef, Undef, Undef, Undef)

(* C18 as claimed: the query by deviceId d1 without pagination parameters
   returns all Signals of d1 sorted by time descending, with currentPage 1,
   limit 10, totalCount the number of d1 Signals and totalPages
   ceil(totalCount / 10), however many d1 Signals there are. *)
C18_ReturnsAllOfDevice ==
  QueriesDeviceD1Only =>
    LET D1 == { s \in store : s.deviceId = "d1" }
        d == result.data
    IN  /\ result.kind = "page"
        /\ Range(d) = D1
        /\ \A i, j \in 1..Len(d) : i < j => d[i].time.v >= d[j].time.v
        /\ result.currentPage = 1
        /\ result.limit = 10
        /\ result.totalCount = Cardinality(D1)
        /\ result.totalPages * 10 >= result.totalCount
        /\ (result.totalPages - 1) * 10 < result.totalCount \/ result.totalCount = 0

(* C18 as amended: the query by deviceId d1 without pagination parameters
   returns the min(10, count) most recent Signals of d1 sorted by time
   descending (all of them when there are at most 10), with currentPage 1,
   limit 10, totalCount the number of d1 Signals and totalPages
   ceil(totalCount / 10). *)
C18_ReturnsFirstPageOfDevice ==
  QueriesDeviceD1Only =>
    LET D1 == { s \in store : s.deviceId = "d1" }
        d == result.data
    IN  /\ result.kind = "page"
        /\ Range(d) \subseteq D1
        /\ Cardinality(Range(d)) = Len(d)
        /\ Len(d) = IF Cardinality(D1) < 10 THEN Cardinality(D1) ELSE 10
        /\ \A i, j \in 1..Len(d) : i < j => d[i].time.v >= d[j].time.v
        /\ \A s \in D1 \ Range(d) : \A i \in 1..Len(d) : s.time.v <= d[i].time.v
        /\ result.currentPage = 1
        /\ result.limit = 10
        /\ result.totalCount = Cardinality(D1)
        /\ result.totalPages * 10 >= result.totalCount
        /\ result.totalCount > 0 => (result.totalPages - 1) * 10 < result.totalCount
        /\ result.totalCount = 0 => result.totalPages = 0

(* device d1 was queried without pagination parameters while it had more
   than ten Signals *)
C18_Witness ==
  /\ QueriesDeviceD1Only
  /\ Cardinality({ s \in store : s.deviceId = "d1" }) > 10
  /\ Cardinality({ s \in store : s.deviceId # "d1" }) > 0

(* the page or limit the claim expects the Store to be invoked with *)
ClaimedDefaulted(j, d) == IF j.t = "num" /\ j.v > 0 THEN j.v ELSE d

(* C19: findAll substitutes page 1 / limit 10 whenever page or limit is
   missing, zero or negative, so findWithFilters is always invoked, with
   page >= 1 and limit >= 1, and the filter fields deviceId, uuid, time,
   dataLength and dataVolume reach it with unchanged values. *)
C19_DefaultsAndPassThrough ==
  (/\ request.op = "findAll"
   /\ ToNumber(request.query.page).t \in {"undef", "num"}
   /\ ToNumber(request.query.limit).t \in {"undef", "num"}) =>
    LET q == request.query
        fw == request.forwarded
    IN  /\ result.kind = "page"
        /\ fw.pagination.page = Num(ClaimedDefaulted(ToNumber(q.page), 1))
        /\ fw.pagination.limit = Num(ClaimedDefaulted(ToNumber(q.limit), 10))
        /\ fw.pagination.page.v >= 1
        /\ fw.pagination.limit.v >= 1
        /\ fw.filters.deviceId = q.deviceId
        /\ fw.filters.uuid = q.uuid
        /\ fw.filters.time = ToNumber(q.time)
        /\ fw.filters.dataLength = ToNumber(q.dataLength)
        /\ fw.filters.dataVolume = ToNumber(q.dataVolume)

(* C20: deleteByDeviceId(d) removes all and only the Signals whose deviceId
   is d, returns the number of Signals removed and leaves the Signals of
   every other device unchanged; a second call with the same d returns 0. *)
C20_DeleteByDeviceIdExact ==
  request.op = "deleteByDeviceId" =>
    LET gone == { s \in storeBefore : s.deviceId = request.deviceId }
    IN  /\ store = storeBefore \ gone
        /\ result.deletedCount = Cardinality(gone)
        /\ result.deletedCount = Cardinality(storeBefore) - Cardinality(store)
        /\ DeletedCount(store, request.deviceId) = 0
        /\ AfterDeleteByDeviceId(store, request.deviceId) = store

(* several Signals of one device were removed while another device's
   Signal stayed *)
C20_Witness ==
  /\ request.op = "deleteByDeviceId"
  /\ result.deletedCount >= 2
  /\ store # {}

(* a message that is an object with exactly one device entry, which passes
   validation *)
ValidSingleDevice(m) ==
  m.kind = "object" /\ Len(m.keys) = 1 /\ Survives(m.ents[1])

(* C21: round trip.  For a valid single-device message whose insert
   completes, the store holds exactly one new Signal; its deviceId and time
   are the message's, its points are the message's wire tuples
   [time, [x, y, speed]] in the same order and number, each as
   {time, coords: {x, y, speed}}; findOne by its uuid returns that Signal. *)
C21_RoundTrip ==
  (Responded /\ persist = "ok" /\ ValidSingleDevice(cur)) =>
    /\ Cardinality(NewSignals) = 1
    /\ \A s \in NewSignals :
         LET e == cur.ents[1]
         IN  /\ s.deviceId = cur.keys[1]
             /\ s.time = e.time
             /\ Len(s.data) = Len(e.data)
             /\ \A i \in 1..Len(e.data) :
                  /\ s.data[i].time = e.data[i].time
                  /\ s.data[i].coords.x = e.data[i].x
                  /\ s.data[i].coords.y = e.data[i].y
                  /\ s.data[i].coords.speed = e.data[i].speed
             /\ FindOneReturns(store, s.uuid) = Doc(s)
             /\ FindOneReturns(storeBefore, s.uuid) = Null

(* a single-device message with several points was persisted next to a
   Signal the store already held *)
C21_Witness ==
  /\ Responded
  /\ persist = "ok"
  /\ ValidSingleDevice(cur)
  /\ Len(cur.ents[1].data) = MaxPoints
  /\ storeBefore # {}
  /\ Cardinality(NewSignals) = 1

(* the createSignal calls whose insertMany resolved *)
CompletedInserts ==
  { i \in Instances : /\ inserts[i].phase = "returned"
                      /\ inserts[i].written = Len(inserts[i].docs) }
NoInsertPending == \A i \in Instances : inserts[i].phase # "inserting"

(* C22: when createSignal calls of several consumer instances ran
   concurrently and all have returned, the store holds exactly the Signals
   of the completed inserts, none lost or overwritten and nothing else, and
   the uuids in the store are pairwise distinct. *)
C22_StoreIsUnionOfCompletedInserts ==
  NoInsertPending =>
    /\ store = UNION { Range(inserts[i].docs) : i \in CompletedInserts }
    /\ Cardinality(Uuids(store)) = Cardinality(store)

(* C22, the part that holds in every state of every interleaving: the
   store holds exactly the documents the calls have written so far, each
   unchanged, under pairwise distinct uuids *)
WrittenByInserts ==
  /\ store = UNION { Written(inserts[i].docs, inserts[i].written) : i \in Instances }
  /\ Cardinality(Uuids(store)) = Cardinality(store)
  /\ \A i \in CompletedInserts : Range(inserts[i].docs) \subseteq store

(* C23: each delivery goes decode, persist, ack decision.  A delivery starts
   undecided; the decoder runs before createSignal is called; a response is
   emitted only by the step in which the decoder ended the attempt or in
   which the store's insert completed or failed; and the delivery is
   released only once its response exists. *)
C23_DecodePersistThenOutcome ==
  [][ /\ (pc = "idle" /\ pc' # "idle") =>
           (pc' = "validating" /\ response' = NoResponse /\ storeCalls' = 0)
      /\ (pc = "validating" /\ pc' # "validating") =>
           /\ pc' \in {"persisting", "responded"}
           /\ decoded' = CleanData(variant, cur)
           /\ storeCalls' = 0 /\ persist' = "none" /\ store' = store
           /\ (pc' = "persisting") = (response' = NoResponse)
      /\ (pc = "persisting" /\ pc' # "persisting") =>
           /\ pc' = "responded"
           /\ decoded' = decoded
           /\ storeCalls' = 1 /\ persist' \in {"ok", "failed"}
           /\ response' # NoResponse
      /\ (response = NoResponse /\ response' # NoResponse) =>
           /\ pc' = "responded"
           /\ pc = "persisting" \/ (pc = "validating" /\ storeCalls' = 0)
      /\ (pc # "idle" /\ pc' = "idle") =>
           (pc = "responded" /\ response # NoResponse)
    ]_vars

(* a second delivery got its response after the store's insert failed *)
C23_Witness ==
  /\ Responded
  /\ deliveries = 2
  /\ storeCalls = 1
  /\ persist = "failed"
  /\ response # NoResponse

(* a publish-manual request was handled and every publish succeeded *)
PublishedAll ==
  /\ request = [op |-> "publishManual"]
  /\ \A i \in 1..Len(posted.keys) : result.results[i]

(* C25, as stated: for every accepted body, whatever its number of device
   keys, the payload delivered to the consumer is the posted body. *)
C25_ForwardsBodyUnmodified ==
  PublishedAll => (Len(published) = 1 /\ published[1].message = posted)

(* C25, amended: every device entry of the body whose publish succeeds is
   delivered as a message of its own, { deviceId: entry } with the entry as
   posted, under the routing key of its deviceId and in the body's key
   order; nothing else is published.  The delivered payload is the posted
   body exactly when the body is an object with one device key. *)
C25_ForwardsEachDeviceEntry ==
  request = [op |-> "publishManual"] =>
    LET sent == { i \in 1..Len(posted.keys) : result.results[i] }
        Rank(i) == Cardinality({ j \in sent : j <= i })
    IN  /\ Len(published) = Cardinality(sent)
        /\ \A i \in sent :
             /\ published[Rank(i)].routingKey.deviceId = posted.keys[i]
             /\ published[Rank(i)].message.kind = "object"
             /\ published[Rank(i)].message.keys = <<posted.keys[i]>>
             /\ published[Rank(i)].message.ents = <<posted.ents[i]>>
        /\ (posted.kind = "object" /\ Len(posted.keys) = 1 /\ sent # {}) =>
             published = <<[routingKey |-> RoutingKey(posted.keys[1]),
                            message |-> posted]>>

(* a body with two device keys went out as two messages *)
C25_Witness ==
  /\ PublishedAll
  /\ Len(posted.keys) = 2
  /\ Len(published) = 2
  /\ published[1].message # posted
  /\ published[2].message.keys = <<Devices[2]>>

(* the decoder has run on the message being handled *)
DecoderReturned == pc \in {"persisting", "responded"}

(* an object with at least one device entry, each of which reaches
   validate() and fails it *)
AllFailValidation(m) ==
  /\ m.kind = "object"
  /\ Len(m.keys) >= 1
  /\ \A i \in 1..Len(m.keys) :
       /\ ~SkipsEntry(m.ents[i])
       /\ ~MapThrows(m.ents[i])
       /\ ~ValidDevice(MappedData(m.ents[i]))

EmptyMapping == Decoded("map", <<>>, <<>>)

(* C26, as stated: when every device entry of a structurally valid message
   fails validation, the decoder returns null, not an empty mapping. *)
C26_AllInvalidDecodesToNull ==
  (DecoderReturned /\ AllFailValidation(cur)) => decoded = DecodedNull

(* C26, amended: when every device entry of a structurally valid message
   fails validation, the decoder validates each entry once and returns a
   result that holds no device: null in the older cleanData, the empty
   mapping in _cleanData; in both the message is dead-lettered and
   createSignal is not called. *)
C26_AllInvalidDecodesToNoDevice ==
  (DecoderReturned /\ AllFailValidation(cur)) =>
    /\ decoded = (IF variant = "B" THEN DecodedNull ELSE EmptyMapping)
    /\ ValidateCallsFrom(cur, 1) = Len(cur.keys)
    /\ Responded
    /\ response = Nack(FALSE)
    /\ storeCalls = 0

(* the older cleanData returned null for two entries that both failed
   validation *)
C26_Witness ==
  /\ DecoderReturned
  /\ AllFailValidation(cur)
  /\ Len(cur.keys) = 2
  /\ variant = "B"
  /\ decoded = DecodedNull

(* the message { d1: { data: [], time: 456 } } *)
EmptyDataMessage ==
  Msg("object", <<Devices[1]>>, <<Entry(<<>>, DeviceTime, Undef, Undef)>>)

(* C27, as stated: a message whose only device entry has an empty data
   array is not a decode failure: the decoder returns a non-null result,
   and validation is invoked exactly once. *)
C27_EmptyDataDecodesToNonNull ==
  (DecoderReturned /\ cur = EmptyDataMessage) =>
    /\ decoded.tag = "map"
    /\ ValidateCallsFrom(cur, 1) = 1

(* C27, amended: for a message whose only device entry has an empty data
   array the decoder does not raise and invokes validation exactly once;
   the entry fails it (the array needs one element) and is dropped, so
   _cleanData returns the empty mapping, which is not null, and the older
   cleanData returns null. *)
C27_EmptyDataIsValidatedOnceAndDropped ==
  (DecoderReturned /\ cur = EmptyDataMessage) =>
    /\ ValidateCallsFrom(cur, 1) = 1
    /\ decoded.tag # "throw"
    /\ Len(decoded.keys) = 0
    /\ (variant = "A") = (decoded.tag = "map")
    /\ (variant = "B") = (decoded = DecodedNull)

(* _cleanData returned the empty mapping for the empty data array *)
C27_Witness ==
  /\ DecoderReturned
  /\ cur = EmptyDataMessage
  /\ variant = "A"
  /\ decoded = EmptyMapping

(* Signal s is the document of the i-th device of mapping r *)
SignalOf(s, r, i) ==
  /\ s.deviceId = r.keys[i]
  /\ s.time = r.dtos[i].time
  /\ s.data = r.dtos[i].data

(* C28: on the success path handleXrayData calls createSignal exactly once,
   with the mapping the decoder returned for the message (every Signal
   written belongs to a device of that mapping, and a completed insert wrote
   one Signal for each of its devices), and it returns only after that call
   returned: while createSignal is awaited there is no response. *)
C28_CreateSignalOnceWithDecodedMapping ==
  /\ (pc = "persisting") =>
       (response = NoResponse /\ storeCalls = 0 /\ returned = NotReturned)
  /\ (Responded /\ state = "ACCEPTED") =>
       /\ storeCalls = 1
       /\ returned # NotReturned
       /\ response = ReturnSuccess
       /\ decoded = CleanData(variant, cur)
       /\ \A s \in NewSignals :
            \E i \in 1..Len(decoded.keys) : SignalOf(s, decoded, i)
       /\ (persist = "ok") =>
            /\ Cardinality(NewSignals) = Len(decoded.keys)
            /\ \A i \in 1..Len(decoded.keys) :
                 \E s \in NewSignals : SignalOf(s, decoded, i)

(* the handler returned after createSignal had saved both devices of the
   decoded mapping *)
C28_Witness ==
  /\ Responded
  /\ state = "ACCEPTED"
  /\ storeCalls = 1
  /\ persist = "ok"
  /\ Len(decoded.keys) = 2
  /\ returned = Returned("array", 2)

(* C29: a message that is a keyed mapping and has no surviving device entry
   is dead-lettered: the handler returns reject-without-requeue and does
   not call createSignal; hence createSignal is never awaited with an empty
   mapping. *)
C29_NoSurvivorDeadLetters ==
  /\ (Responded /\ cur.kind = "object" /\ SurvivingFrom(cur, 1) = <<>>) =>
       /\ state = "DEAD_LETTERED"
       /\ response = Nack(FALSE)
       /\ storeCalls = 0
  /\ (pc = "persisting") => Len(decoded.keys) >= 1

(* C29, the part that holds: whenever the decoder returns for such a
   message the message is dead-lettered, and createSignal is never called
   with an empty mapping *)
NoSurvivorReturnedDeadLetters ==
  /\ (Responded /\ cur.kind = "object" /\ SurvivingFrom(cur, 1) = <<>>
        /\ ~LoopThrows(cur)) =>
       /\ state = "DEAD_LETTERED"
       /\ response = Nack(FALSE)
       /\ storeCalls = 0
  /\ (pc = "persisting") => Len(decoded.keys) >= 1
  /\ (storeCalls > 0) => Len(decoded.keys) >= 1

(* C30: handleXrayData is total.  Whatever the message and whatever the
   store does, a delivery attempt that has started reaches its return; it
   returns a response object (no exception reaches the transport) with
   exactly one of the terminal outcomes ACCEPTED, DEAD_LETTERED and RETRY,
   and it calls createSignal at most once. *)
C30_HandlerIsTotal ==
  /\ [](storeCalls <= 1)
  /\ [](Responded =>
          /\ state \in {"ACCEPTED", "DEAD_LETTERED", "RETRY"}
          /\ response \in {Nack(FALSE), Nack(TRUE)}
          /\ (state = "RETRY") = Requeues(response)
          /\ (state = "ACCEPTED") = (storeCalls = 1))
  /\ [](pc \in {"validating", "persisting"} =>
          (state \in {"VALIDATING"} /\ response = NoResponse))
  /\ ((pc = "validating") ~> Responded)

(* a message on which the decoder raises was redelivered and the handler
   returned once more *)
C30_Witness ==
  /\ Responded
  /\ deliveries = 2
  /\ decoded = DecodedThrow
  /\ response = Nack(TRUE)
  /\ \E h \in seen : h.decode = "exception" /\ Requeues(h.response)

(* what version v of the consumer does with message m up to the store call:
   the branch it takes, the response it returns when it does not reach the
   store, and the argument of createSignal when it does *)
Observed(v, m) ==
  LET r == CleanData(v, m)
      b == AfterDecode(v, r)
  IN  [branch |-> b,
       response |-> CASE b = "retry" -> ReturnError
                      [] b = "dead" /\ r.tag = "null" -> ReturnInvalid
                      [] b = "dead" -> ReturnEmpty
                      [] OTHER -> NoResponse,
       argument |-> IF b = "persist" THEN r ELSE DecodedNull]

(* C31: the two versions of the consumer are observationally equivalent.
   For the message being handled both take the same branch, return the same
   response when they do not reach the store and hand the same mapping to
   createSignal when they do (after which they run the same code on the
   same store outcome); and the running version behaves as computed. *)
C31_VariantsObservationallyEquivalent ==
  (pc # "idle") =>
    /\ Observed("A", cur) = Observed("B", cur)
    /\ DecoderReturned =>
         /\ (pc = "persisting" \/ storeCalls = 1) = (Observed(variant, cur).branch = "persist")
         /\ (storeCalls = 1) => decoded = Observed("B", cur).argument
         /\ (Responded /\ storeCalls = 0) => response = Observed("B", cur).response
         /\ (Responded /\ storeCalls = 1) => response = ReturnSuccess

(* consumer.service.ts dead-lettered a message for which its decoder
   returned the empty mapping, where the older decoder returns null *)
C31_Witness ==
  /\ Responded
  /\ variant = "A"
  /\ decoded = EmptyMapping
  /\ CleanDataB(cur) = DecodedNull
  /\ Len(cur.keys) = 2
  /\ response = Nack(FALSE)
  /\ storeCalls = 0

(* the Signals of S that carry the content of the i-th device of mapping r *)
SignalsOf(S, r, i) == { s \in S : SignalOf(s, r, i) }

(* C32: the bulk insert is not idempotent.  Every handling of a valid
   message whose insert completes adds one Signal per valid device, whatever
   the store already holds for the same content: each device's count of
   Signals grows by one, so k completed handlings of a message with N valid
   devices leave k*N Signals for it; the uuids are fresh, and the unique
   index never rejects a document of the batch. *)
C32_EachHandlingAddsAFullSet ==
  /\ (pc = "persisting") =>
       \A uuids \in FreshUuidSeqs(Len(decoded.keys)) :
         \A i \in 1..Len(decoded.keys) :
           IndexAdmits(SignalsToSave(decoded, uuids), i, store)
  /\ (Responded /\ persist = "ok") =>
       /\ Cardinality(store) = Cardinality(storeBefore) + Len(decoded.keys)
       /\ Uuids(NewSignals) \cap Uuids(storeBefore) = {}
       /\ \A i \in 1..Len(decoded.keys) :
            Cardinality(SignalsOf(store, decoded, i))
              = Cardinality(SignalsOf(storeBefore, decoded, i)) + 1

(* the same one-device message was handled a second time and the store
   holds two Signals with its content under different uuids *)
C32_Witness ==
  /\ Responded
  /\ persist = "ok"
  /\ deliveries = 2
  /\ Len(decoded.keys) = 1
  /\ Cardinality(SignalsOf(storeBefore, decoded, 1)) = 1
  /\ Cardinality(SignalsOf(store, decoded, 1)) = 2
  /\ Cardinality(Uuids(store)) = 2

(* j is a number within [lo, hi] *)
NumberWithin(j, lo, hi) == j.t = "num" /\ lo <= j.v /\ j.v <= hi

(* C33: every device batch the decoder returns satisfies the validation
   rules: at least one point, every point's time an integer, x within
   [-90, 90], y within [-180, 180], speed a number, and the device time a
   number; hence every Signal the bulk path stored has dataLength >= 1. *)
C33_DecodedBatchesAreValid ==
  /\ DecoderReturned =>
       \A i \in 1..Len(decoded.keys) :
         LET b == decoded.dtos[i]
         IN  /\ Len(b.data) >= 1
             /\ b.time.t = "num"
             /\ \A n \in 1..Len(b.data) :
                  /\ b.data[n].time.t = "num"
                  /\ NumberWithin(b.data[n].coords.x, -90, 90)
                  /\ NumberWithin(b.data[n].coords.y, -180, 180)
                  /\ b.data[n].coords.speed.t = "num"
  /\ \A s \in store : s.dataLength >= 1 /\ s.dataLength = Len(s.data)

(* of two device entries the one with a latitude out of range was dropped
   and the other one stored *)
C33_Witness ==
  /\ Responded
  /\ persist = "ok"
  /\ Len(cur.keys) = 2
  /\ Len(decoded.keys) = 1
  /\ \E i \in 1..2 : cur.ents[i] = Entry(<<PtOutOfRange>>, DeviceTime, Undef, Undef)

(* what C34 says of one update or delete call *)
TouchesOnlyTarget ==
  LET target == { s \in storeBefore : s.uuid = request.id }
  IN  /\ \A s \in storeBefore \ target : s \in store
      /\ Cardinality(store \ storeBefore) <= 1
      /\ storeBefore \ store \subseteq target
      /\ (request.op = "delete") => store = storeBefore \ target
      /\ (request.op = "update") =>
           /\ Cardinality(store) = Cardinality(storeBefore)
           /\ \A s \in target :
                \E t \in store : t.uuid = s.uuid /\ t.deviceId = s.deviceId

(* C34: update(id, dto) and delete(id) change or remove at most the one
   Signal whose uuid is id and leave every other Signal unchanged, and
   update never changes the target's uuid or deviceId. *)
C34_SingleRecordOpsTouchOnlyTarget ==
  request.op \in {"update", "delete"} => TouchesOnlyTarget

(* C34, the part that holds: delete, and update with an object that holds
   only the fields UpdateSignalDto declares *)
DeclaredFieldsTouchOnlyTarget ==
  (\/ request.op = "delete"
   \/ request.op = "update" /\ request.dto \in DeclaredUpdateDtos) =>
    TouchesOnlyTarget

(* C35: create(dto) with a uuid that a persisted Signal carries fails with
   an error and leaves the store as it was: no second Signal with that
   uuid, the existing one not modified.  With a uuid no persisted Signal
   carries it adds exactly one Signal, which carries the dto's fields, and
   returns it. *)
C35_CreateRejectsDuplicateUuid ==
  request.op = "create" =>
    IF request.dto.uuid \in Uuids(storeBefore)
    THEN /\ result = Raised
         /\ store = storeBefore
    ELSE /\ result = Doc(request.dto)
         /\ store \ storeBefore = {request.dto}
         /\ storeBefore \subseteq store
         /\ Cardinality(store) = Cardinality(storeBefore) + 1
         /\ \E s \in store :
              /\ s.uuid = request.dto.uuid
              /\ s.deviceId = request.dto.deviceId
              /\ s.time = request.dto.time
              /\ s.dataLength = request.dto.dataLength
              /\ s.dataVolume = request.dto.dataVolume
              /\ s.data = request.dto.data

(* create was refused for a uuid carried by a Signal that differs from the
   dto in its content *)
C35_Witness ==
  /\ request.op = "create"
  /\ result = Raised
  /\ \E s \in store : s.uuid = request.dto.uuid /\ s # request.dto
  /\ Cardinality(store) >= 2

(* create added a Signal under a uuid no Signal carried *)
C35_WitnessFresh ==
  /\ request.op = "create"
  /\ result = Doc(request.dto)
  /\ storeBefore # {}
(* C36: in every result of findWithFilters the pagination information and
   the data agree, also when a write of another caller is applied while the
   call runs: totalCount is the number of matching Signals in the collection
   the data was read from, and the data hold
   min(limit, max(0, totalCount - (page - 1) * limit)) Signals *)
PageReturned == request.op = "findWithFilters" /\ result.kind = "page"

ExpectedPageSize(totalCount, page, limit) ==
  LET rest == IF totalCount - Skip(page, limit) > 0
              THEN totalCount - Skip(page, limit) ELSE 0
  IN  IF limit < rest THEN limit ELSE rest

C36_PageAgreesWithCount ==
  PageReturned =>
    /\ result.totalCount = Cardinality(Matching(storeBefore, request.filters))
    /\ Len(result.data) =
         ExpectedPageSize(result.totalCount, result.currentPage, result.limit)

(* C36, the same without a write between the two queries *)
C36_UndisturbedPageAgreesWithCount ==
  (PageReturned /\ storeCalls = 0) =>
    /\ result.totalCount = Cardinality(Matching(storeBefore, request.filters))
    /\ Len(result.data) =
         ExpectedPageSize(result.totalCount, result.currentPage, result.limit)

(* C37: the producer publishes one message per device key of the payload,
   holding that one device entry and routed with xray.data.<deviceId>; a
   publish that fails does not keep the entries after it from being
   published; the returned list has one entry per device key, with success
   exactly for the devices whose message went out *)
C37_OneMessageAndOneResultPerDevice ==
  request = [op |-> "publishManual"] =>
    /\ result.kind = "published"
    /\ DOMAIN result.results = 1..Len(posted.keys)
    /\ \A i \in 1..Len(posted.keys) :
         result.results[i] <=>
           \E k \in 1..Len(published) :
             published[k] = [routingKey |-> [prefix |-> "xray.data",
                                            deviceId |-> posted.keys[i]],
                             message |-> [kind |-> "object",
                                          keys |-> <<posted.keys[i]>>,
                                          ents |-> <<posted.ents[i]>>]]
    /\ \A k \in 1..Len(published) :
         \E i \in 1..Len(posted.keys) :
           result.results[i] /\ published[k].message.keys = <<posted.keys[i]>>
    /\ Len(published) =
         Cardinality({ i \in 1..Len(posted.keys) : result.results[i] })

(* the publish of the first of two devices failed, the second went out *)
C37_Witness ==
  /\ request = [op |-> "publishManual"]
  /\ Len(posted.keys) = 2
  /\ result.results = <<FALSE, TRUE>>
  /\ Len(published) = 1
  /\ published[1].routingKey.deviceId = posted.keys[2]

(* C38: the two branches of SignalController.findAll are equivalent.  For a
   query without keys, findWithFilters called with the filter DTO returns
   what it returns when called with {}; and the page and limit that the
   filter DTO carries beside the pagination DTO never influence which
   Signals are selected *)
FindAllReturned == request.op = "findAll" /\ result.kind = "page"

WithoutPaginationKeys(f) == [f EXCEPT !.page = Undef, !.limit = Undef]

C38_FindAllBranchesAgree ==
  FindAllReturned =>
    LET q == request.query
        f == ToFilterSignalDto(q)
        fw == request.forwarded
    IN  /\ ~HasKeys(q) =>
             /\ FindWithFiltersOutcomes(storeBefore, f, fw.pagination) =
                  FindWithFiltersOutcomes(storeBefore, EmptyFilter, fw.pagination)
             /\ result \in FindWithFiltersOutcomes(storeBefore, f, fw.pagination)
        /\ Matching(storeBefore, f) = Matching(storeBefore, WithoutPaginationKeys(f))
        /\ Matching(storeBefore, fw.filters) = Matching(storeBefore, WithoutPaginationKeys(f))
        /\ result.totalCount = Cardinality(Matching(storeBefore, WithoutPaginationKeys(f)))
        /\ \A k \in 1..Len(result.data) :
             result.data[k] \in Matching(storeBefore, WithoutPaginationKeys(f))

(* a query with page and limit and a device filter was answered from the
   first branch, the filter DTO carrying both pagination keys *)
C38_Witness ==
  /\ FindAllReturned
  /\ request.forwarded.filters.page = Chars(<<"2">>)
  /\ request.forwarded.filters.limit = Chars(<<"1">>)
  /\ request.forwarded.filters.deviceId = Str("d1")
  /\ Len(result.data) = 1
  /\ result.totalCount >= 3

(* a query without keys was answered from the second branch *)
C38_WitnessNoKeys ==
  /\ FindAllReturned
  /\ ~HasKeys(request.query)
  /\ request.forwarded.filters = EmptyFilter
  /\ Len(result.data) = 10
  /\ result.totalCount > 10

====
